---- MODULE Spec2Model ----
(***************************************************************************)
(* A model of n2tlog.py: the linear log processor that classifies web      *)
(* server access-log entries and stores one row per identifier resolution  *)
(* in an sqlite table.                                                      *)
(*                                                                          *)
(* Strings are sequences of one-character strings, so that the regular     *)
(* expression, the stripping, the lower-casing, the percent-decoding and   *)
(* the concatenation that builds the row id are computed character by      *)
(* character, as the code computes them.                                   *)
(***************************************************************************)
EXTENDS Integers, Sequences, FiniteSets, TLC

(***************************************************************************)
(* Characters                                                               *)
(***************************************************************************)
LowerCase ==
    <<"a","b","c","d","e","f","g","h","i","j","k","l","m",
      "n","o","p","q","r","s","t","u","v","w","x","y","z">>

UpperCase ==
    <<"A","B","C","D","E","F","G","H","I","J","K","L","M",
      "N","O","P","Q","R","S","T","U","V","W","X","Y","Z">>

Digits == <<"0","1","2","3","4","5","6","7","8","9">>

Range(s) == {s[i] : i \in DOMAIN s}

\* A character outside the modelled repertoire (a control character, the
\* grave accent, or a character a percent escape above 7F decodes to): no
\* scheme character, no white space, no line break.
OtherChar == "<?>"

\* The printable ASCII characters, code points 32 to 126 in order (the grave
\* accent, which a TLA+ string cannot hold, as OtherChar).
Ascii ==
    <<" ","!","\"","#","$","%","&","'","(",")","*","+",",","-",".","/">>
    \o Digits
    \o <<":",";","<","=",">","?","@">>
    \o UpperCase
    \o <<"[","\\","]","^","_",OtherChar>>
    \o LowerCase
    \o <<"{","|","}","~">>

\* The character class [a-zA-Z0-9./_] of requestre.
SchemeChars ==
    Range(LowerCase) \cup Range(UpperCase) \cup Range(Digits) \cup {".", "/", "_"}

\* The characters \s matches.
WhiteSpace == {" ", "\t", "\n", "\r", "\f"}

\* "." of the regular expression matches every character but the line break.
IsDot(c) == c # "\n"

IndexOf(s, c) == CHOOSE i \in DOMAIN s : s[i] = c

\* str.lower() on one character.
LowerChar(c) == IF c \in Range(UpperCase) THEN LowerCase[IndexOf(UpperCase, c)] ELSE c

\* str.lower()
lower(s) == [i \in DOMAIN s |-> LowerChar(s[i])]

\* s[a..b], the empty string when a > b.
Slice(s, a, b) == IF a > b THEN <<>> ELSE SubSeq(s, a, b)

\* str.strip("/"): the leading and the trailing slashes removed.
strip(s) ==
    LET keep == {i \in DOMAIN s : s[i] # "/"}
    IN  IF keep = {} THEN <<>>
        ELSE LET a == CHOOSE i \in keep : \A j \in keep : i <= j
                 b == CHOOSE i \in keep : \A j \in keep : i >= j
             IN  SubSeq(s, a, b)

\* sub in s, for strings.
Contains(s, sub) ==
    \E i \in 0..(Len(s) - Len(sub)) : SubSeq(s, i + 1, i + Len(sub)) = sub

(***************************************************************************)
(* urllib.parse.unquote_plus                                                *)
(***************************************************************************)
HexDigits == Digits \o <<"a","b","c","d","e","f">>

IsHex(c) == LowerChar(c) \in Range(HexDigits)

HexVal(c) == IndexOf(HexDigits, LowerChar(c)) - 1

\* The character of a decoded byte.
ByteChar(b) ==
    IF b >= 32 /\ b <= 126 THEN Ascii[b - 31]
    ELSE IF b = 9 THEN "\t"
    ELSE IF b = 10 THEN "\n"
    ELSE IF b = 12 THEN "\f"
    ELSE IF b = 13 THEN "\r"
    ELSE OtherChar

\* unquote: every %XX with two hexadecimal digits is replaced by the
\* character of that byte, anything else is kept; decoded text is not
\* scanned again.
RECURSIVE unquote(_)
unquote(s) ==
    IF s = <<>> THEN <<>>
    ELSE IF s[1] = "%" /\ Len(s) >= 3 /\ IsHex(s[2]) /\ IsHex(s[3])
         THEN <<ByteChar(16 * HexVal(s[2]) + HexVal(s[3]))>> \o unquote(SubSeq(s, 4, Len(s)))
         ELSE <<s[1]>> \o unquote(Tail(s))

\* unquote_plus: "+" becomes a space, then unquote.
unquote_plus(s) == unquote([i \in DOMAIN s |-> IF s[i] = "+" THEN " " ELSE s[i]])

(***************************************************************************)
(* requestre, used with search(): start of string, any text, one white   *)
(* space, a slash, group 2 (scheme characters), a colon, group 3 (any     *)
(* text), one white space, any text.                                       *)
(***************************************************************************)
\* The end of the longest run of scheme characters that starts at j
\* (j - 1 when s[j] is none).
RunEnd(s, j) ==
    LET stops == {k \in j..Len(s) : s[k] \notin SchemeChars}
    IN  IF stops = {} THEN Len(s)
        ELSE (CHOOSE k \in stops : \A m \in stops : k <= m) - 1

\* The positions the white space that ends group 3 can take, when group 3
\* starts at v: ".*" does not cross a line break.
ValueEnds(s, v) ==
    {e \in v..Len(s) : s[e] \in WhiteSpace /\ \A m \in v..(e - 1) : IsDot(s[m])}

\* The positions i of a "\s/" at which the rest of the expression matches:
\* "^.*" takes s[1..i-1], the class takes the whole run of scheme characters
\* (a shorter one is followed by a scheme character, never by the colon),
\* and some white space follows the colon.
MatchStarts(s) ==
    {i \in 1..(Len(s) - 1) :
        /\ s[i] \in WhiteSpace
        /\ s[i + 1] = "/"
        /\ \A m \in 1..(i - 1) : IsDot(s[m])
        /\ LET c == RunEnd(s, i + 2) + 1
           IN  c <= Len(s) /\ s[c] = ":" /\ ValueEnds(s, c + 1) # {}}

Max(S) == CHOOSE x \in S : \A y \in S : x >= y

Min(S) == CHOOSE x \in S : \A y \in S : x <= y

\* The absent match.
NoMatch == [matched |-> FALSE]

\* requestre.search(s): the greedy "^.*" settles on the last "\s/" that
\* works, the greedy ".*" of group 3 on the last white space it can reach.
Groups(s, i, c) ==
    [matched |-> TRUE,
     group2  |-> Slice(s, i + 2, c - 1),
     group3  |-> Slice(s, c + 1, Max(ValueEnds(s, c + 1)) - 1)]

MatchAt(s, i) == Groups(s, i, RunEnd(s, i + 2) + 1)

requestre_search(s) ==
    IF MatchStarts(s) = {} THEN NoMatch ELSE MatchAt(s, Max(MatchStarts(s)))

\* The first lines of splitRecord: the scheme and the value of a request
\* line, or no result.
NoResult == [found |-> FALSE]

\* ".php" in id_scheme rejects the match.
SchemeAndValue(id_scheme, id_value) ==
    IF Contains(id_scheme, <<".","p","h","p">>) THEN NoResult
    ELSE [found |-> TRUE, id_scheme |-> id_scheme, id_value |-> id_value]

\* OfMatch without lower().
OfMatchAsWritten(m) ==
    IF ~m.matched THEN NoResult
    ELSE SchemeAndValue(strip(m.group2), strip(m.group3))

OfMatch(m) ==
    IF ~m.matched THEN NoResult
    ELSE SchemeAndValue(strip(lower(m.group2)), strip(m.group3))

classify(request_line) == OfMatch(requestre_search(unquote_plus(request_line)))

(***************************************************************************)
(* Timestamps, rows and the table                                           *)
(***************************************************************************)
\* A request time is a tick; its string form (str(t), and the text sqlite
\* stores for it) has a fixed width, as the ISO form of a date-time has, so
\* that the order of the texts is the order of the times.  All times carry
\* the same UTC offset.
isoformat(t) == <<Digits[(t \div 10) + 1], Digits[(t % 10) + 1]>>

DigitVal(c) == IndexOf(Digits, c) - 1

\* datetime.fromisoformat on the text of a stored time.
fromisoformat(text) == 10 * DigitVal(text[1]) + DigitVal(text[2])

\* getRowId: the digest of the three texts joined with no separator.  The
\* digest is one-to-one on the texts met here, so the joined text stands
\* for it.
getRowId(t, ip, id_value) == isoformat(t) \o ip \o id_value

\* parse_ua: the user-agent parser, an opaque function of the header.
parse_ua(ua) == [family |-> ua]

\* The request lines of the log entries of the model.
LineX == <<"G"," ","/","a",":","/","x"," ","H">>

LineY == <<"G"," ","/","A",":","y","/"," ","H">>

LineNone == <<"G"," ","/","n"," ","H">>

ExternalHost == <<"2","0","3",".","0",".","1","1","3",".","5">>

LOCAL_HOST ==
    { <<"l","o","c","a","l","h","o","s","t">>,
      <<"1","2","7",".","0",".","0",".","1">> }

\* splitRecord: the row of an entry, or the empty list.  The calendar
\* fields and the milliseconds of the day are functions of the time and are
\* left out of the row.
NoRecord == <<>>

\* "len(record) > 0"
NonEmpty(record) == DOMAIN record # {}

RecordOf(entry, c) ==
    IF ~c.found THEN NoRecord
    ELSE [id             |-> getRowId(entry.request_time, entry.remote_host, c.id_value),
          t              |-> isoformat(entry.request_time),
          client_ip      |-> entry.remote_host,
          id_scheme      |-> c.id_scheme,
          id_value       |-> c.id_value,
          browser_family |-> parse_ua(entry.user_agent).family]

splitRecord(entry) == RecordOf(entry, classify(entry.request_line))

\* The primary keys of a set of rows.
Ids(S) == {r.id : r \in S}

\* The order of two texts of the same length (sqlite compares the stored
\* times as text).
TextLeq(a, b) ==
    \/ a = b
    \/ \E k \in DOMAIN a :
          /\ \A j \in 1..(k - 1) : a[j] = b[j]
          /\ IndexOf(Ascii, a[k]) < IndexOf(Ascii, b[k])

\* SELECT MAX(t) FROM logs: NULL on a table without rows.
Null == "NULL"

SelectMaxT(table) ==
    IF table = {} THEN Null
    ELSE (CHOOSE r \in table : \A q \in table : TextLeq(q.t, r.t)).t

\* executemany on a table whose id column is no key: every row is inserted.
executemany_unkeyed(table, txn, rows) == [ok |-> TRUE, txn |-> txn \cup Range(rows)]

\* csr.executemany(sql, rows): the rows are inserted one after the other
\* into the connection's open transaction; the first row whose id is
\* already in the table raises IntegrityError, and the rows inserted before
\* it stay in the transaction.
RECURSIVE executemany(_, _, _)
executemany(table, txn, rows) ==
    IF rows = <<>> THEN [ok |-> TRUE, txn |-> txn]
    ELSE IF Head(rows).id \in Ids(table \cup txn) THEN [ok |-> FALSE, txn |-> txn]
    ELSE executemany(table, txn \cup {Head(rows)}, Tail(rows))

\* The loop with INSERT OR REPLACE in the place of INSERT: a row whose id
\* the table holds takes the place of the stored row.
insert_each_replacing(table, txn, rows, log) ==
    [table |-> {r \in table : r.id \notin Ids(Range(rows))} \cup Range(rows),
     txn |-> {}, log |-> log]

\* The loop of addrows after a failed bulk insert: each row is inserted
\* and the transaction committed; a row that raises IntegrityError is
\* logged and skipped, and nothing is committed for it.
RECURSIVE insert_each(_, _, _, _)
insert_each(table, txn, rows, log) ==
    IF rows = <<>> THEN [table |-> table, txn |-> txn, log |-> log]
    ELSE IF Head(rows).id \in Ids(table \cup txn)
         THEN insert_each(table, txn, Tail(rows), Append(log, Head(rows).t))
         ELSE insert_each(table \cup txn \cup {Head(rows)}, {}, Tail(rows), log)

\* addrows: table holds the committed rows, txn the rows of the open
\* transaction; log lists the warnings ("IntegrityError" for the failed
\* bulk insert, the time of a row for each duplicate row).
AfterBulk(table, bulk, rows) ==
    IF bulk.ok
    THEN [table |-> table \cup bulk.txn, txn |-> {}, log |-> <<>>]
    ELSE insert_each(table, bulk.txn, rows, <<"IntegrityError">>)

addrows(table, txn, rows) == AfterBulk(table, executemany(table, txn, rows), rows)

(***************************************************************************)
(* Bounds and inputs                                                        *)
(***************************************************************************)
\* The longest input, in entries.
MaxInput == 4

\* The number of times the command is run on the same input and database.
MaxRuns == 2

\* batch_size of parse (10000 in the program), scaled down.
batch_size == 2

Entry(t, host, status, request, ua) ==
    [request_time |-> t, remote_host |-> host, final_status |-> status,
     request_line |-> request, user_agent |-> ua]

Q1 == Entry(1, ExternalHost, 302, LineX, "ua1")

\* Q1 again with another user agent.
Q1b == Entry(1, ExternalHost, 302, LineX, "ua2")

Q2 == Entry(2, ExternalHost, 302, LineX, "ua1")

Q3 == Entry(2, ExternalHost, 303, LineY, "ua1")

\* Entries the filters drop: a local host, a status that is no redirect, a
\* request without scheme:value.
FromLocal == Entry(2, CHOOSE h \in LOCAL_HOST : h[1] = "1", 302, LineY, "ua1")

NotFound == Entry(2, ExternalHost, 404, LineY, "ua2")

Unmatched == Entry(2, ExternalHost, 302, LineNone, "ua1")

Entries == {Q1, Q1b, Q2, Q3, FromLocal, NotFound, Unmatched}

\* The tables a first run can find: a new database, or the rows of earlier
\* runs.
InitialStores == { {}, {splitRecord(Q1)}, {splitRecord(Q2)} }

\* The ways the pipeline is started: the command (main) with its option
\* --max_rows, or parseLog called with max_rows.
Calls ==
    { [via |-> "main", max_rows |-> -1], [via |-> "main", max_rows |-> 2],
      [via |-> "parseLog", max_rows |-> 1], [via |-> "parseLog", max_rows |-> 2] }

(***************************************************************************)
(* State                                                                    *)
(***************************************************************************)
VARIABLES
    store,        \* the committed rows of table logs
    pending,      \* the rows inserted in the connection's open transaction
    inf,          \* the input: the entries of the log, in order
    call,         \* how every run is started
    run,          \* the number of runs started
    pc,           \* idle, loop, after_loop, done, aborted, classify
    max_rows,     \* parse's max_rows
    oldest_entry, \* parse's oldest_entry
    pos,          \* the number of entries the loop has taken from inf
    rows,         \* parse's rows
    ids,          \* parse's ids
    n,            \* parse's n
    nparsed,      \* parse's nparsed
    store0,       \* the committed rows when the current run started
    snaps,        \* the committed rows after each finished run
    lastFlush,    \* the last call of addrows of the current run
    buffered,     \* the records the current run has appended to rows
    flushed,      \* the records the current run has handed to addrows
    line,         \* a request line to classify
    result        \* its classification

vars ==
    <<store, pending, inf, call, run, pc, max_rows, oldest_entry, pos, rows,
      ids, n, nparsed, store0, snaps, lastFlush, buffered, flushed, line, result>>

NoFlush == [called |-> FALSE]

Init ==
    /\ store \in InitialStores
    /\ pending = {}
    /\ inf = <<>>
    /\ call \in Calls
    /\ run = 0
    /\ pc = "idle"
    /\ max_rows = 0
    /\ oldest_entry = 0
    /\ pos = 0
    /\ rows = <<>>
    /\ ids = <<>>
    /\ n = 0
    /\ nparsed = 0
    /\ store0 = {}
    /\ snaps = <<>>
    /\ lastFlush = NoFlush
    /\ buffered = {}
    /\ flushed = {}
    /\ line = <<>>
    /\ result = NoResult

(***************************************************************************)
(* main, parseLog and parse                                                 *)
(***************************************************************************)
\* The default of parseLog's max_rows.
DefaultMaxRows == -1

\* parseLog(fname, dbname, max_rows) hands its max_rows to parse.
parseLog(max_rows_arg) == max_rows_arg

\* main(log_file, database, max_rows) calls parseLog(log_file, database):
\* parseLog's max_rows keeps its default, whatever the option says.
main(max_rows_option) == parseLog(DefaultMaxRows)

\* The value parse's max_rows gets from the call.
MaxRowsOf(c) == IF c.via = "main" THEN main(c.max_rows) ELSE parseLog(c.max_rows)

\* The table as the connection sees it.
View == store \cup pending

\* oldestLogRecord, called by parse, on the answer res[0] of the query.
oldestLogRecord(res0) ==
    IF res0 = Null
    THEN pc' = "aborted" /\ UNCHANGED oldest_entry
    ELSE pc' = "loop" /\ oldest_entry' = fromisoformat(res0)

\* A run starts: parse sets its locals and asks for the oldest record.  On
\* a table without rows fromisoformat(None) raises TypeError, which nothing
\* catches.
Invoke ==
    /\ pc = "idle"
    /\ run < MaxRuns
    /\ run' = run + 1
    /\ max_rows' = MaxRowsOf(call)
    /\ n' = 0
    /\ rows' = <<>>
    /\ ids' = <<>>
    /\ nparsed' = 0
    /\ pos' = 0
    /\ store0' = store
    /\ lastFlush' = NoFlush
    /\ buffered' = {}
    /\ flushed' = {}
    /\ oldestLogRecord(SelectMaxT(View))
    /\ UNCHANGED <<store, pending, inf, call, snaps, line, result>>

\* A call of addrows(buffer) by parse, and its record.
Flushed(r, before, buffer) ==
    [store |-> r.table, pending |-> r.txn,
     lastFlush |-> [called |-> TRUE, rows |-> buffer, before |-> before, log |-> r.log]]

Flush(table, txn, buffer) == Flushed(addrows(table, txn, buffer), table \cup txn, buffer)

\* Passes without the test of the host.
PassesAnyHost(entry) == entry.final_status \in {302, 303}

\* "entry.final_status in [302, 303] and entry.remote_host not in LOCAL_HOST"
Passes(entry) ==
    /\ entry.final_status \in {302, 303}
    /\ entry.remote_host \notin LOCAL_HOST

\* parse's locals and the table, as a turn of the loop finds them.
Locals ==
    [store |-> store, pending |-> pending, lastFlush |-> lastFlush,
     rows |-> rows, ids |-> ids, n |-> n, brk |-> FALSE,
     buffered |-> buffered, flushed |-> flushed]

\* "if max_rows > 0 and n > max_rows: rows = []; break"
CapCheck(s) ==
    IF max_rows > 0 /\ s.n > max_rows THEN [s EXCEPT !.rows = <<>>, !.brk = TRUE] ELSE s

\* The flush without "ids = []".
FlushBufferKeepingIds(s, f) ==
    [s EXCEPT !.store = f.store, !.pending = f.pending, !.lastFlush = f.lastFlush,
              !.rows = <<>>, !.flushed = s.flushed \cup Range(s.rows)]

\* "self.addrows(rows); rows = []; ids = []"
FlushBuffer(s, f) ==
    [s EXCEPT !.store = f.store, !.pending = f.pending, !.lastFlush = f.lastFlush,
              !.rows = <<>>, !.ids = <<>>, !.flushed = s.flushed \cup Range(s.rows)]

\* "if n % batch_size == 0"
BatchCheck(s) ==
    IF s.n % batch_size = 0 THEN FlushBuffer(s, Flush(s.store, s.pending, s.rows)) ELSE s

\* The same without "ids.append(record[0])".
BufferUntracked(s, record) ==
    [s EXCEPT !.rows = Append(s.rows, record),
              !.n = s.n + 1, !.buffered = s.buffered \cup {record}]

\* "rows.append(record); ids.append(record[0]); n += 1"
Buffer(s, record) ==
    [s EXCEPT !.rows = Append(s.rows, record), !.ids = Append(s.ids, record.id),
              !.n = s.n + 1, !.buffered = s.buffered \cup {record}]

\* The same lines with "n += 1" moved out of the test of ids: a record is
\* counted whether or not its id is tracked.
WithRecordCountingAll(s, record) ==
    IF NonEmpty(record) /\ record.id \in Range(s.ids)
    THEN CapCheck([s EXCEPT !.n = s.n + 1])
    ELSE IF NonEmpty(record) THEN CapCheck(BatchCheck(Buffer(s, record)))
    ELSE CapCheck(s)

\* The lines of the loop that follow "record = self.splitRecord(entry)".
WithRecord(s, record) ==
    IF NonEmpty(record) /\ record.id \notin Range(s.ids)
    THEN CapCheck(BatchCheck(Buffer(s, record)))
    ELSE CapCheck(s)

\* The turn with ">" in the place of ">=" in the test of the time.
LoopBodyStrictlyNewer(entry) ==
    IF entry.request_time > oldest_entry /\ Passes(entry)
    THEN WithRecord(Locals, splitRecord(entry))
    ELSE Locals

\* One turn of the for loop of parse on entry: the new values of the
\* locals and of the table, and whether the loop is left by break.
LoopBody(entry) ==
    IF entry.request_time >= oldest_entry /\ Passes(entry)
    THEN WithRecord(Locals, splitRecord(entry))
    ELSE Locals

\* The turn followed by a new reading of the oldest record.
StepRereading(b) ==
    /\ store' = b.store
    /\ pending' = b.pending
    /\ lastFlush' = b.lastFlush
    /\ rows' = b.rows
    /\ ids' = b.ids
    /\ n' = b.n
    /\ buffered' = b.buffered
    /\ flushed' = b.flushed
    /\ pos' = pos + 1
    /\ nparsed' = IF b.brk THEN nparsed ELSE nparsed + 1
    /\ pc' = IF b.brk THEN "after_loop" ELSE "loop"
    /\ oldest_entry' = fromisoformat(SelectMaxT(b.store \cup b.pending))
    /\ UNCHANGED <<call, run, max_rows, store0, snaps, line, result>>

\* The end of a turn: the locals and the table take their new values, and
\* the loop goes on or is left.
Step(b) ==
    /\ store' = b.store
    /\ pending' = b.pending
    /\ lastFlush' = b.lastFlush
    /\ rows' = b.rows
    /\ ids' = b.ids
    /\ n' = b.n
    /\ buffered' = b.buffered
    /\ flushed' = b.flushed
    /\ pos' = pos + 1
    /\ nparsed' = IF b.brk THEN nparsed ELSE nparsed + 1
    /\ pc' = IF b.brk THEN "after_loop" ELSE "loop"
    /\ UNCHANGED <<call, run, max_rows, oldest_entry, store0, snaps, line, result>>

Turn(entry) == Step(LoopBody(entry))

\* The first run reads the log: any entry may come next.
ReadEntry ==
    /\ pc = "loop"
    /\ run = 1
    /\ pos = Len(inf)
    /\ Len(inf) < MaxInput
    /\ \E entry \in Entries :
          /\ inf' = Append(inf, entry)
          /\ Turn(entry)

\* A later run reads the same log again.
RereadEntry ==
    /\ pc = "loop"
    /\ run > 1
    /\ pos < Len(inf)
    /\ inf' = inf
    /\ Turn(inf[pos + 1])

\* The input is exhausted.
EndOfInput ==
    /\ pc = "loop"
    /\ pos = Len(inf)
    /\ pc' = "after_loop"
    /\ UNCHANGED <<store, pending, inf, call, run, max_rows, oldest_entry, pos, rows,
                   ids, n, nparsed, store0, snaps, lastFlush, buffered, flushed,
                   line, result>>

Flushing(f) ==
    /\ store' = f.store
    /\ pending' = f.pending
    /\ lastFlush' = f.lastFlush

\* After the loop: "if len(rows) > 0: self.addrows(rows)", and parse returns.
Finish ==
    /\ pc = "after_loop"
    /\ pc' = "done"
    /\ IF Len(rows) > 0
       THEN Flushing(Flush(store, pending, rows)) /\ flushed' = flushed \cup Range(rows)
       ELSE UNCHANGED <<store, pending, lastFlush, flushed>>
    /\ UNCHANGED <<inf, call, run, max_rows, oldest_entry, pos, rows, ids, n, nparsed,
                   store0, snaps, buffered, line, result>>

\* The process ends, after parse returned or with the exception: the
\* connection is never closed nor committed again, and the rows of its open
\* transaction are rolled back.
Exit ==
    /\ pc \in {"done", "aborted"}
    /\ pc' = "idle"
    /\ pending' = {}
    /\ snaps' = Append(snaps, store)
    /\ UNCHANGED <<store, inf, call, run, max_rows, oldest_entry, pos, rows, ids, n,
                   nparsed, store0, lastFlush, buffered, flushed, line, result>>

Next ==
    \/ Invoke
    \/ ReadEntry
    \/ RereadEntry
    \/ EndOfInput
    \/ Finish
    \/ Exit

Spec == Init /\ [][Next]_vars

(***************************************************************************)
(* The classification of request lines, on its own                         *)
(***************************************************************************)
\* The longest request line drawn from LineChars.
MaxLine == 7

\* A white space, the slash, the colon, a scheme character in upper case,
\* and a character that is no scheme character.
LineChars == {" ", "/", ":", "A", "-"}

ExampleArk == <<"G","E","T"," ","/","a","r","k",":","/","1","2","0","2","5","/","1","2","3","4"," ","H","T","T","P","/","1",".","1">>

ExamplePhp == <<"G","E","T"," ","/","f","o","o",".","p","h","p",":","x"," ","H","T","T","P","/","1",".","1">>

ExampleNoMatch == <<"G","E","T"," ","/","n","o","m","a","t","c","h"," ","H","T","T","P","/","1",".","1">>

ExampleNoScheme == <<"G","E","T"," ","/",":","x"," ","H","T","T","P","/","1",".","1">>

ExampleNoValue == <<"G","E","T"," ","/","a","r","k",":"," ","H","T","T","P","/","1",".","1">>

ExampleEncoded == <<"G","E","T"," ","/","A","R","K","%","3","A","%","2","F","1","2","0","2","5","/","a","+","b"," ","H","T","T","P","/","1",".","1">>

ExampleUpperPhp == <<"G","E","T"," ","/","x",".","P","H","P",":","y"," ","H","T","T","P","/","1",".","1">>

ExampleTwoPaths == <<"G","E","T"," ","/","d","o","i",":","1","0",".","1","/","x"," ","/","a","r","k",":","/","1","/","2"," ","H","T","T","P","/","1",".","1">>

ExampleLineBreak == <<"G","E","T"," ","/","a","r","k",":","/","1","%","0","A","/","2"," ","H","T","T","P","/","1",".","1">>

ExampleLines ==
    {ExampleArk, ExamplePhp, ExampleNoMatch, ExampleNoScheme, ExampleNoValue, ExampleEncoded, ExampleUpperPhp, ExampleTwoPaths, ExampleLineBreak}

\* The request lines classified: every line of at most MaxLine characters of
\* LineChars, the examples, and the lines of the log entries.
Lines ==
    UNION {[1..k -> LineChars] : k \in 0..MaxLine}
        \cup ExampleLines \cup {LineX, LineY, LineNone}

Unclassified == [found |-> FALSE, pending |-> TRUE]

InitClassify ==
    /\ line \in Lines
    /\ result = Unclassified
    /\ pc = "classify"
    /\ store = {}
    /\ pending = {}
    /\ inf = <<>>
    /\ call = [via |-> "splitRecord", max_rows |-> 0]
    /\ run = 0
    /\ max_rows = 0
    /\ oldest_entry = 0
    /\ pos = 0
    /\ rows = <<>>
    /\ ids = <<>>
    /\ n = 0
    /\ nparsed = 0
    /\ store0 = {}
    /\ snaps = <<>>
    /\ lastFlush = NoFlush
    /\ buffered = {}
    /\ flushed = {}

\* splitRecord classifies the request line.
Classify ==
    /\ pc = "classify"
    /\ pc' = "classified"
    /\ result' = classify(line)
    /\ UNCHANGED <<store, pending, inf, call, run, max_rows, oldest_entry, pos, rows,
                   ids, n, nparsed, store0, snaps, lastFlush, buffered, flushed, line>>

NextClassify == Classify

SpecClassify == InitClassify /\ [][NextClassify]_vars

(***************************************************************************)
(* Properties of the pipeline                                               *)
(***************************************************************************)
\* An entry that passes the status and host filter and is classified.
Qualifying(entry) == Passes(entry) /\ classify(entry.request_line).found

\* The identity key of a qualifying entry.
KeyOf(entry) == splitRecord(entry).id

\* The entries of the input come in non-decreasing time order.
Sorted(input) ==
    \A i, j \in DOMAIN input : i < j => input[i].request_time <= input[j].request_time

\* The run is over and its process has ended.
Ended(k) == pc = "idle" /\ run = k /\ Len(snaps) = k

\* C1 (idempotence): when the pipeline has run twice, without a cap, over
\* the same input against the same database, the rows stored after the
\* second run are the rows stored after the first: the second run adds none.
C1_Idempotence == (Len(snaps) >= 2 /\ max_rows <= 0) => snaps[2] = snaps[1]

\* C2 (empty store): a run that finds the table without rows does not abort,
\* and when it is over every qualifying entry of the input has its row in
\* the table.
C2_EmptyStoreIngestsEverything ==
    (run >= 1 /\ store0 = {}) =>
        /\ pc # "aborted"
        /\ (pc = "done" /\ max_rows <= 0) =>
              \A i \in DOMAIN inf : Qualifying(inf[i]) => KeyOf(inf[i]) \in Ids(store)

\* The number of rows of a flushed buffer whose key the table already held.
Conflicts(flush) ==
    Cardinality({i \in DOMAIN flush.rows : flush.rows[i].id \in Ids(flush.before)})

\* C3 (batch-conflict isolation): a flush of N rows of which M have a key
\* the table already holds stores exactly N - M new rows, wherever the
\* conflicting rows stand in the buffer.  Stated for the last flush of a
\* run without a cap, once the run is over: the rows the table has gained
\* since that flush began are N - M.
C3_BatchConflictIsolation ==
    (pc = "idle" /\ run >= 1 /\ max_rows <= 0 /\ lastFlush.called) =>
        Cardinality(store \ lastFlush.before) = Len(lastFlush.rows) - Conflicts(lastFlush)

\* The latest time stored when the run started.
Watermark0 == fromisoformat(SelectMaxT(store0))

\* C4 (resumption): after a run without a cap over an input in
\* non-decreasing time order, against a table that held rows up to time T,
\* no row the run has added is older than T and every qualifying entry
\* later than T has its row in the table.  (Entries at T itself are left
\* open here.)
C4_Resumption ==
    (Ended(1) /\ store0 # {} /\ max_rows <= 0 /\ Sorted(inf)) =>
        /\ \A r \in store \ store0 : fromisoformat(r.t) >= Watermark0
        /\ \A i \in DOMAIN inf :
              (Qualifying(inf[i]) /\ inf[i].request_time > Watermark0)
                  => KeyOf(inf[i]) \in Ids(store)

\* Two rows are the same logical event.
SameEvent(r1, r2) ==
    r1.t = r2.t /\ r1.client_ip = r2.client_ip /\ r1.id_value = r2.id_value

\* The rows parse has built and still holds or has handed to its last flush.
Built == Range(rows) \cup (IF lastFlush.called THEN Range(lastFlush.rows) ELSE {})

\* C5 (deduplication): two rows built from entries with the same time, host
\* and identifier value have the same identity key, whatever their
\* enrichment data, and the table, open transaction included, never holds
\* two rows for one time, host and identifier value.
C5_OneRowPerEvent ==
    /\ \A r1, r2 \in Built \cup store \cup pending : SameEvent(r1, r2) => r1.id = r2.id
    /\ \A r1, r2 \in store \cup pending : SameEvent(r1, r2) => r1 = r2

\* Q1b, then Q1 in the next flush cycle, both buffered and flushed against a
\* table that already held the row of Q1: it still holds that row alone.
C5_Witness ==
    /\ pc = "done"
    /\ run = 1
    /\ inf = <<Q1b, Q3, Q1>>
    /\ n = 3
    /\ {r \in store : r.id = KeyOf(Q1)} = {splitRecord(Q1)}

\* C6 (cap): with a cap K > 0, once the processed count n has reached K
\* the loop takes no further entry from the input.
C6_StopsAtCap ==
    [][(pc = "loop" /\ max_rows > 0 /\ n >= max_rows) => pos' = pos]_vars

\* C7 (command cap): a run started by the command applies the cap given
\* with --max_rows.
C7_CommandCapApplied == (run >= 1 /\ call.via = "main") => max_rows = call.max_rows

\* The entry the filter of status and host excludes, and the entry with
\* status 302 from another host whose request line has a scheme and a value.
Excluded(entry) ==
    entry.final_status \notin {302, 303} \/ entry.remote_host \in LOCAL_HOST

Included(entry) ==
    /\ entry.final_status = 302
    /\ entry.remote_host \notin LOCAL_HOST
    /\ classify(entry.request_line).found

\* C8 (status and host filter): a turn of the loop on an excluded entry
\* changes neither the count, nor the buffer, nor the table, whatever the
\* request line; a turn on an included entry that the watermark lets
\* through and whose key is not yet tracked in this flush cycle counts it,
\* and its key is then tracked in the buffer's ids or in the table.
C8_StatusHostFilter ==
    [][(pc = "loop" /\ pos' = pos + 1) =>
          /\ Excluded(inf'[pos']) =>
                /\ n' = n /\ rows' = rows /\ ids' = ids
                /\ store' = store /\ pending' = pending
          /\ (/\ Included(inf'[pos'])
              /\ inf'[pos'].request_time >= oldest_entry
              /\ KeyOf(inf'[pos']) \notin Range(ids)) =>
                /\ n' = n + 1
                /\ \/ KeyOf(inf'[pos']) \in Range(ids')
                   \/ KeyOf(inf'[pos']) \in Ids(store' \cup pending')]_vars

\* A 302 from 127.0.0.1 and a 404 were read and left no trace, then a 302
\* from 203.0.113.5 was read and buffered.
C8_Witness ==
    /\ pc = "loop"
    /\ pos = 3
    /\ inf = <<FromLocal, NotFound, Q2>>
    /\ n = 1
    /\ Len(rows) = 1
    /\ rows[1].id = KeyOf(Q2)

(***************************************************************************)
(* Properties of the classification                                         *)
(***************************************************************************)
\* C9 (non-empty classification): a request line classified with a result
\* has a non-empty scheme and a non-empty value.
C9_SchemeAndValueNonEmpty ==
    (pc = "classified" /\ result.found) =>
        result.id_scheme # <<>> /\ result.id_value # <<>>

\* The places of the white space of a text.
Spaces(d) == {i \in DOMAIN d : d[i] \in WhiteSpace}

\* METHOD path VERSION: three non-empty tokens, one white space between two.
ThreeTokens(d) ==
    \E a, b \in DOMAIN d : Spaces(d) = {a, b} /\ 1 < a /\ a + 1 < b /\ b < Len(d)

PathOf(d) == Slice(d, Min(Spaces(d)) + 1, Max(Spaces(d)) - 1)

\* The colons of a path that only scheme characters separate from its
\* leading slash (the first colon, or none).
SchemeColons(path) ==
    {k \in 2..Len(path) :
        path[1] = "/" /\ path[k] = ":" /\ \A j \in 2..(k - 1) : path[j] \in SchemeChars}

\* What the claim expects of a path /scheme:value.
Expected(path) ==
    IF SchemeColons(path) = {} THEN NoResult
    ELSE LET k      == Min(SchemeColons(path))
             scheme == strip(lower(Slice(path, 2, k - 1)))
         IN  IF Contains(scheme, <<".","p","h","p">>) THEN NoResult
             ELSE [found |-> TRUE, id_scheme |-> scheme,
                   id_value |-> strip(Slice(path, k + 1, Len(path)))]

\* A text holds /scheme:value between two white spaces, scheme at i + 2 and
\* the colon at c, the value up to e.
Shape(d, i, c, e) ==
    /\ i + 1 < c /\ c < e
    /\ d[i] \in WhiteSpace /\ d[i + 1] = "/"
    /\ \A j \in (i + 2)..(c - 1) : d[j] \in SchemeChars
    /\ d[c] = ":"
    /\ d[e] \in WhiteSpace

FromShape(r, d) ==
    \E i, c, e \in DOMAIN d :
        /\ Shape(d, i, c, e)
        /\ r.id_scheme = strip(lower(Slice(d, i + 2, c - 1)))
        /\ r.id_value = strip(Slice(d, c + 1, e - 1))

\* A scheme in lower case, with no slash at either end and without ".php";
\* a value with no slash at either end.
Normalised(r) ==
    /\ \A i \in DOMAIN r.id_scheme : r.id_scheme[i] \notin Range(UpperCase)
    /\ r.id_scheme = <<>> \/ (Head(r.id_scheme) # "/" /\ r.id_scheme[Len(r.id_scheme)] # "/")
    /\ r.id_value = <<>> \/ (Head(r.id_value) # "/" /\ r.id_value[Len(r.id_value)] # "/")
    /\ ~Contains(r.id_scheme, <<".","p","h","p">>)

C11_FirstWriterWins ==
    [][/\ store \subseteq store'
       /\ \A r1, r2 \in store' : r1.id = r2.id => r1 = r2]_vars

\* The table held the row of Q1; the row of Q1b, same key and another
\* browser family, was handed to a flush, and the table holds the row of Q1.
C11_Witness ==
    /\ pc = "done"
    /\ splitRecord(Q1) \in store
    /\ splitRecord(Q1b) \in flushed
    /\ splitRecord(Q1b) \notin store
\* The loop was left by break, the count beyond the cap.
Stopped == pc \in {"after_loop", "done"} /\ max_rows > 0 /\ n > max_rows

\* C12 (termination flush): when parse returns, after the end of the input
\* or after an early stop, every record buffered during the run has been
\* handed to a flush.
C12_TerminationFlush == pc = "done" => buffered \subseteq flushed
\* parse is in its loop or past it.
Running == pc \in {"loop", "after_loop", "done"}

\* The entry passes the watermark, the status and host filter and the
\* classification.
Accepted(entry) == entry.request_time >= oldest_entry /\ Qualifying(entry)

\* C13 as stated (processed count): the count of a run is the number of
\* entries taken from the input that passed the watermark, the status and
\* host filter and the classification, an entry whose identity key repeats
\* an earlier entry of the run included.
C13_PreDedupCount ==
    Running => n = Cardinality({i \in 1..pos : Accepted(inf[i])})

\* The count of the entries input[i..last] added to c, by the rule of the
\* loop: an accepted entry is counted unless its key is in the keys of the
\* current flush cycle, which start anew each time the count reaches a
\* multiple of batch_size.
RECURSIVE CountedFrom(_, _, _, _, _)
CountedFrom(input, i, last, cycle, c) ==
    IF i > last THEN c
    ELSE IF Accepted(input[i]) /\ KeyOf(input[i]) \notin cycle
         THEN CountedFrom(input, i + 1, last,
                          IF (c + 1) % batch_size = 0 THEN {}
                          ELSE cycle \cup {KeyOf(input[i])},
                          c + 1)
         ELSE CountedFrom(input, i + 1, last, cycle, c)

\* C13 amended (processed count): the count of a run is the number of
\* records it has buffered: the entries that passed the watermark, the
\* status and host filter and the classification and whose identity key
\* was not already buffered in the current flush cycle.  An entry that
\* repeats a key of the same cycle is not counted; one that repeats a key
\* of an earlier cycle, or a stored key, is.  The count is not the number
\* of rows newly stored, which it bounds.
C13_CountsBufferedRecords ==
    Running =>
        /\ n = CountedFrom(inf, 1, pos, {}, 0)
        /\ n <= Cardinality({i \in 1..pos : Accepted(inf[i])})
        /\ Cardinality(store \ store0) <= n

\* Q1b after Q1 in one cycle is not counted, Q1b after the flush is: four
\* accepted entries, three counted, one row newly stored.
C13_Witness ==
    /\ pc = "loop"
    /\ max_rows <= 0
    /\ inf = <<Q1, Q1b, Q2, Q1b>>
    /\ pos = 4
    /\ n = 3
    /\ Cardinality(store \ store0) = 1
\* The "Duplicate row for ..." warnings of a flush: its log without the
\* warning of the failed bulk insert.
DuplicateWarnings(flush) == IF flush.log = <<>> THEN <<>> ELSE Tail(flush.log)

\* C14 (one conflict, one warning): a flush of a buffer in which exactly one
\* record has a key the table already holds logs exactly one duplicate-row
\* warning, and that warning is for the colliding record.
C14_OneConflictOneWarning ==
    (lastFlush.called /\ Conflicts(lastFlush) = 1) =>
        \E i \in DOMAIN lastFlush.rows :
            /\ lastFlush.rows[i].id \in Ids(lastFlush.before)
            /\ DuplicateWarnings(lastFlush) = <<lastFlush.rows[i].t>>
\* The run stopped at the cap and its process has ended.
EndedAtCap == pc = "idle" /\ run >= 1 /\ max_rows > 0 /\ n > max_rows

\* C15 (cap discard): when the count has exceeded the cap the run has
\* stopped, the records buffered since the last periodic flush are
\* discarded and none of them is a row the run has added, and every record
\* handed to an earlier periodic flush is stored.
C15_CapDiscard ==
    EndedAtCap =>
        /\ rows = <<>>
        /\ \A r \in buffered \ flushed : r \notin store \ store0
        /\ \A r \in flushed : r.id \in Ids(store)
\* C16 (watermark gate): a turn of the loop on an entry strictly older than
\* the watermark leaves the count, the buffer and the table as they were;
\* a turn on an entry at the watermark or later that passes the filter and
\* the classification, its key not tracked in the cycle, counts it; and no
\* row added since the run started is strictly older than the watermark
\* the run read at its start.
C16_WatermarkGate ==
    [][/\ (pc = "loop" /\ pos' = pos + 1) =>
             /\ inf'[pos'].request_time < oldest_entry =>
                   /\ n' = n /\ rows' = rows /\ ids' = ids
                   /\ store' = store /\ pending' = pending
             /\ (/\ inf'[pos'].request_time >= oldest_entry
                 /\ Qualifying(inf'[pos'])
                 /\ KeyOf(inf'[pos']) \notin Range(ids)) => n' = n + 1
       /\ \A r \in (store' \cup pending') \ store0' :
             fromisoformat(r.t) >= oldest_entry']_vars

\* The watermark is 2: Q1 at time 1 was skipped, Q3 at time 2 was buffered.
C16_Witness ==
    /\ pc = "loop"
    /\ oldest_entry = 2
    /\ inf = <<Q1, Q3>>
    /\ pos = 2
    /\ n = 1
    /\ rows = <<splitRecord(Q3)>>
\* C17 (watermark read once): from the start of a run to its return the
\* watermark is the latest time the table held when the run started, and no
\* step of the run changes it, whatever the flushes insert; so a turn on an
\* entry not older than that time is never skipped by the gate: if the
\* entry passes the filter and the classification, its key not tracked in
\* the cycle, it is counted.
C17_WatermarkReadOnce ==
    [][Running =>
          /\ oldest_entry = Watermark0
          /\ oldest_entry' = oldest_entry
          /\ (/\ pc = "loop" /\ pos' = pos + 1
              /\ inf'[pos'].request_time >= Watermark0
              /\ Qualifying(inf'[pos'])
              /\ KeyOf(inf'[pos']) \notin Range(ids)) => n' = n + 1]_vars

\* The run started at watermark 1 and has flushed rows of time 2; Q1b, of
\* time 1, was then read and counted.
C17_Witness ==
    /\ pc = "loop"
    /\ oldest_entry = 1
    /\ inf = <<Q2, Q3, Q1b>>
    /\ pos = 3
    /\ n = 3
    /\ fromisoformat(SelectMaxT(store)) = 2
    /\ rows = <<splitRecord(Q1b)>>
\* The identity keys of the records of a buffer, in order.
KeysOf(buffer) == [i \in DOMAIN buffer |-> buffer[i].id]

DistinctKeys(buffer) ==
    \A i, j \in DOMAIN buffer : buffer[i].id = buffer[j].id => i = j

\* C19 (in-buffer duplicates): the buffer parse holds, and every buffer it
\* hands to addrows, has no two records with the same identity key,
\* whatever the input repeats within a flush cycle.
C19_NoDuplicateInBuffer ==
    /\ DistinctKeys(rows)
    /\ lastFlush.called => DistinctKeys(lastFlush.rows)

\* Q1 and Q1b, one key, came in one flush cycle: the flush received the
\* row of Q1 and the row of Q3.
C19_Witness ==
    /\ lastFlush.called
    /\ inf = <<Q1, Q1b, Q3>>
    /\ pos = 3
    /\ lastFlush.rows = <<splitRecord(Q1), splitRecord(Q3)>>
\* C20 (no open transaction): when addrows has returned, no inserted row is
\* left in the connection's open transaction, and once the process of the
\* run has ended every record of the last flushed buffer has its key in
\* the table.
C20_NoOpenTransaction ==
    lastFlush.called =>
        /\ pending = {}
        /\ pc = "idle" => \A r \in Range(lastFlush.rows) : r.id \in Ids(store)
====
